---- MODULE Spec2Model ----
(***************************************************************************)
(* MCTSplayer of agent.h: one take_action call of a Monte Carlo Tree       *)
(* Search agent for NoGo.  The tree of Node objects, the selection,       *)
(* expansion, simulation (rollout) and backpropagation steps and the      *)
(* final choice of the move are modelled from agent.h.  board.h and       *)
(* action.h are not part of the sources; the board service and the move   *)
(* value are modelled from their description in the specification.        *)
(***************************************************************************)
EXTENDS Integers, Sequences, FiniteSets, TLC

(***************************************************************************)
(* The board has size_x rows of size_y points.  The model keeps two rows; *)
(* the row length, the largest iteration budget and the largest seed are  *)
(* the bounds of the model.                                                *)
(***************************************************************************)
size_x == 2
size_y == 2
MaxT == 5
MaxSeed == 4

NumPos == size_x * size_y
Positions == 0 .. (NumPos - 1)

black == "black"
white == "white"
empty == "empty"
hollow == "hollow"

Opp(c) == IF c = black THEN white ELSE black

(***************************************************************************)
(* Board service (board.h): a grid of stones and the side to move.        *)
(***************************************************************************)
PointX(p) == p \div size_y
PointY(p) == p % size_y

Neighbors(p) ==
    {q \in Positions :
        \/ PointX(q) = PointX(p) /\ (PointY(q) = PointY(p) + 1 \/ PointY(q) = PointY(p) - 1)
        \/ PointY(q) = PointY(p) /\ (PointX(q) = PointX(p) + 1 \/ PointX(q) = PointX(p) - 1)}

RECURSIVE Flood(_, _, _, _)
Flood(stone, c, frontier, seen) ==
    IF frontier = {} THEN seen
    ELSE LET nxt == {q \in UNION {Neighbors(p) : p \in frontier} :
                        q \notin seen /\ stone[q] = c}
         IN Flood(stone, c, nxt, seen \cup nxt)

\* the connected group of stones of one colour that contains p
Group(stone, p) == Flood(stone, stone[p], {p}, {p})

\* number of empty points adjacent to the group of p
check_liberty(stone, p) ==
    Cardinality({q \in UNION {Neighbors(g) : g \in Group(stone, p)} : stone[q] = empty})

DefaultBoard == [stone |-> [p \in Positions |-> empty], who_take_turns |-> black]

\* verdict of placing a stone of colour c at position p under the NoGo
\* rules: the position is on the board and empty, the placed stone's group
\* keeps a liberty (no self-capture) and no adjacent group of the other
\* colour loses its last liberty (no capture)
Legal(b, p, c) ==
    /\ p \in Positions
    /\ c \in {black, white}
    /\ b.stone[p] = empty
    /\ LET placed == [b.stone EXCEPT ![p] = c]
       IN /\ check_liberty(placed, p) > 0
          /\ \A q \in Neighbors(p) :
                placed[q] = Opp(c) => check_liberty(placed, q) > 0

\* board::place(position, who): mutates the board only if legal
place(b, p, c) ==
    IF Legal(b, p, c)
    THEN [stone |-> [b.stone EXCEPT ![p] = c], who_take_turns |-> Opp(c)]
    ELSE b

\* positions at which the side to move can legally place
LegalPositions(b) == {p \in Positions : Legal(b, p, b.who_take_turns)}

\* the boards that legal alternate play reaches from the boards of frontier
RECURSIVE BoardsFrom(_, _)
BoardsFrom(frontier, seen) ==
    IF frontier = {} THEN seen
    ELSE LET nxt == {place(b, p, b.who_take_turns) : b \in frontier, p \in Positions} \ seen
         IN BoardsFrom(nxt, seen \cup nxt)

\* every board of a game that starts on the empty board
ReachableBoards == BoardsFrom({DefaultBoard}, {DefaultBoard})

(***************************************************************************)
(* Move value (action.h): a placement is a position and a colour; the     *)
(* default action is the "no move" sentinel.                              *)
(***************************************************************************)
NoPosition == 0 - 1
NoMove == [position |-> NoPosition, color |-> hollow]

Move(p, c) == [position |-> p, color |-> c]

\* action::place::apply: the board after the move, and its verdict
apply(move, b) == place(b, move.position, move.color)
applyLegal(move, b) == Legal(b, move.position, move.color)

(***************************************************************************)
(* The random engine of random_agent (std::default_random_engine, the     *)
(* minimal standard generator x' = 16807 * x mod (2^31 - 1), computed by  *)
(* Schrage's method to stay within 32 bits) and std::shuffle.             *)
(***************************************************************************)
EngineModulus == 2147483647

DefaultEngine == 1

EngineSeed(s) == IF s % EngineModulus = 0 THEN 1 ELSE s % EngineModulus

\* a plausible slip: the seed is not applied and the engine in use is kept
ConstructedEngine_unseeded(s, inuse) == inuse

\* random_agent's constructor: the engine of a new agent is seeded with s,
\* whatever engine state another agent has reached
ConstructedEngine(s, inuse) == EngineSeed(s)

EngineNext(x) ==
    LET t == 16807 * (x % 127773) - 2836 * (x \div 127773)
    IN IF t > 0 THEN t ELSE t + EngineModulus

Swap(seq, a, b) == [seq EXCEPT ![a] = seq[b], ![b] = seq[a]]

RECURSIVE ShuffleFrom(_, _, _)
ShuffleFrom(seq, e, k) ==
    IF k > Len(seq) THEN [seq |-> seq, engine |-> e]
    ELSE LET e1 == EngineNext(e)
             j == (e1 % k) + 1
         IN ShuffleFrom(Swap(seq, k, j), e1, k + 1)

\* std::shuffle(first, last, engine): the permuted sequence and the engine after it
Shuffle(seq, e) == ShuffleFrom(seq, e, 2)

(***************************************************************************)
(* Node: the heap is the sequence nodes, a Node* is an index into it and  *)
(* 0 is the null pointer.                                                  *)
(***************************************************************************)
NullNode == 0

\* a default-constructed Node; its board member state is never assigned
NewNode ==
    [parent |-> NullNode, children |-> <<>>, win |-> 0, games |-> 0,
     state |-> DefaultBoard, move |-> NoMove, placer |-> black]

isleaf(node) == Len(node.children) = 0

\* Node::legal_count: placements legal for the side to move on the node's own board member
legal_count(node) ==
    Cardinality({p \in Positions :
                    applyLegal(Move(p, node.state.who_take_turns), node.state)})

(***************************************************************************)
(* Node::UCTvalue.  A score is a fixed-point number (unit 1/10000), or    *)
(* Infinity for an unvisited node (DBL_MAX narrowed to float), or NaN     *)
(* when the parent has no win (log(0) is -inf, its square root is NaN).   *)
(* The fixed-point order agrees with the float order for all statistics   *)
(* that up to nine iterations produce.                                     *)
(***************************************************************************)
ScoreScale == 10000
Infinity == 1000000000
NaN == 0 - 1

\* natural logarithm of 1..12 in units of 10^-8
LnTable ==
    <<0, 69314718, 109861229, 138629436, 160943791, 179175947,
      194591015, 207944154, 219722458, 230258509, 239789527, 248490665>>

RECURSIVE IsqrtFrom(_, _)
IsqrtFrom(n, r) ==
    LET r1 == (r + n \div r) \div 2
    IN IF r1 >= r THEN r ELSE IsqrtFrom(n, r1)

\* integer square root (Newton's iteration from above)
Isqrt(n) == IF n < 2 THEN n ELSE IsqrtFrom(n, n)

UCTvalue(ns, n) ==
    IF ns[n].games = 0 THEN Infinity
    ELSE IF ns[ns[n].parent].win = 0 THEN NaN
    ELSE (ns[n].win * ScoreScale) \div ns[n].games
         + Isqrt((2 * LnTable[ns[ns[n].parent].win]) \div ns[n].games)

\* the comparison x > y of two scores; every comparison with NaN is false
ScoreGreater(x, y) == x # NaN /\ y # NaN /\ x > y

\* the lambda of selectchild: x->UCTvalue() > y->UCTvalue()
UCTbefore(ns, x, y) == ScoreGreater(UCTvalue(ns, x), UCTvalue(ns, y))

\* the linear insertion of std::sort: v moves left past every element it is ordered before
RECURSIVE LinearInsert(_, _, _, _)
LinearInsert(ns, sorted, v, k) ==
    IF k >= 1 /\ UCTbefore(ns, v, sorted[k])
    THEN LinearInsert(ns, sorted, v, k - 1)
    ELSE SubSeq(sorted, 1, k) \o <<v>> \o SubSeq(sorted, k + 1, Len(sorted))

\* std::sort of at most 16 elements is an insertion sort
RECURSIVE InsertionSort(_, _, _)
InsertionSort(ns, seq, k) ==
    IF k > Len(seq) THEN seq
    ELSE LET sorted == SubSeq(seq, 1, k - 1)
             v == seq[k]
             placed == IF UCTbefore(ns, v, sorted[1])
                       THEN <<v>> \o sorted
                       ELSE LinearInsert(ns, sorted, v, k - 1)
         IN InsertionSort(ns, placed \o SubSeq(seq, k + 1, Len(seq)), k + 1)

sortedChildNodes(ns, n) == InsertionSort(ns, ns[n].children, 2)

\* MCTSplayer::selectchild: the child with the largest UCT value, or null
selectchild(ns, n) ==
    IF Len(ns[n].children) = 0 THEN NullNode ELSE sortedChildNodes(ns, n)[1]

\* a plausible slip: the board is passed by value and the placement is lost
selectchildBoard_byvalue(ns, b, n) == b

\* the board after selectchild: state.place(child->move.position())
selectchildBoard(ns, b, n) ==
    IF Len(ns[n].children) = 0 THEN b
    ELSE place(b, ns[selectchild(ns, n)].move.position, b.who_take_turns)

(***************************************************************************)
(* MCTSplayer::selectbestchild: the first child whose win rate win/games  *)
(* exceeds every earlier one; a child without games has the rate 0/0,     *)
(* which compares false.  Rates are kept as fractions.                     *)
(***************************************************************************)
\* a plausible slip: score >= max_score
RateGreater_nonstrict(w, g, mw, mg) == g # 0 /\ w * mg >= mw * g

\* score > max_score, for score = w/g and max_score = mw/mg
RateGreater(w, g, mw, mg) == g # 0 /\ w * mg > mw * g

RECURSIVE BestFrom(_, _, _, _, _, _)
BestFrom(ns, ch, k, best, mw, mg) ==
    IF k > Len(ch) THEN best
    ELSE IF RateGreater(ns[ch[k]].win, ns[ch[k]].games, mw, mg)
         THEN BestFrom(ns, ch, k + 1, ch[k], ns[ch[k]].win, ns[ch[k]].games)
         ELSE BestFrom(ns, ch, k + 1, best, mw, mg)

\* a plausible slip: best_child starts as the null pointer
selectbestchild_nullstart(ns, r) ==
    IF Len(ns[r].children) > 0
    THEN BestFrom(ns, ns[r].children, 1, NullNode, 0 - 1, 1)
    ELSE NullNode

selectbestchild(ns, r) ==
    IF Len(ns[r].children) > 0
    THEN BestFrom(ns, ns[r].children, 1, ns[r].children[1], 0 - 1, 1)
    ELSE NullNode

(***************************************************************************)
(* MCTSplayer::expansion on the shuffled space sp: one Node is allocated  *)
(* for every candidate; the candidates whose position is legal for the    *)
(* side to move become children of n, in the order of sp.                  *)
(***************************************************************************)
\* a plausible slip: a candidate is accepted whenever its position is empty
CandidateLegal_emptyonly(b, move) == b.stone[move.position] = empty

\* after.place(move.position()) == board::legal
CandidateLegal(b, move) == Legal(b, move.position, b.who_take_turns)

CandidateNode(ns, b, n, move) ==
    IF CandidateLegal(b, move)
    THEN [NewNode EXCEPT !.move = move, !.parent = n,
                         !.placer = IF ns[n].placer = black THEN white ELSE black]
    ELSE NewNode

\* a plausible slip: every candidate is linked, the legality test is lost
expansion_alllinked(ns, sp, b, n) ==
    LET base == Len(ns)
        fresh == [k \in 1 .. Len(sp) |->
                    [NewNode EXCEPT !.move = sp[k], !.parent = n,
                                    !.placer = IF ns[n].placer = black THEN white ELSE black]]
        ids == [k \in 1 .. Len(sp) |-> base + k]
    IN [ns EXCEPT ![n].children = @ \o ids] \o fresh

expansion(ns, sp, b, n) ==
    LET base == Len(ns)
        fresh == [k \in 1 .. Len(sp) |-> CandidateNode(ns, b, n, sp[k])]
        ids == [k \in 1 .. Len(sp) |-> base + k]
        kids == SelectSeq(ids, LAMBDA id : CandidateLegal(b, sp[id - base]))
    IN [ns EXCEPT ![n].children = @ \o kids] \o fresh

\* the parent chain from n up to the root
RECURSIVE Chain(_, _)
Chain(ns, n) == IF n = NullNode THEN {} ELSE {n} \cup Chain(ns, ns[n].parent)

\* a plausible slip: the two increments are swapped (win++, games += win)
backpropagation_swapped(ns, n, w) ==
    [k \in 1 .. Len(ns) |->
        IF k \in Chain(ns, n)
        THEN [ns[k] EXCEPT !.games = @ + w, !.win = @ + 1]
        ELSE ns[k]]

\* a plausible slip: the outcome is flipped at every level of the chain
backpropagation_flipped(ns, n, w) ==
    [k \in 1 .. Len(ns) |->
        IF k \in Chain(ns, n)
        THEN [ns[k] EXCEPT !.games = @ + 1,
                           !.win = @ + (IF (Cardinality(Chain(ns, n)) - Cardinality(Chain(ns, k))) % 2 = 0
                                        THEN w ELSE 1 - w)]
        ELSE ns[k]]

\* a plausible slip: the walk stops at the root instead of after it
backpropagation_belowroot(ns, n, w) ==
    [k \in 1 .. Len(ns) |->
        IF k \in Chain(ns, n) /\ ns[k].parent # NullNode
        THEN [ns[k] EXCEPT !.games = @ + 1, !.win = @ + w]
        ELSE ns[k]]

\* MCTSplayer::backpropagation
backpropagation(ns, n, w) ==
    [k \in 1 .. Len(ns) |->
        IF k \in Chain(ns, n)
        THEN [ns[k] EXCEPT !.games = @ + 1, !.win = @ + w]
        ELSE ns[k]]

(***************************************************************************)
(* MCTSplayer::random_rollout: pos is 1 .. size_x*size_y shuffled; a ply  *)
(* places at the first entry of pos that is legal for the side to move.   *)
(***************************************************************************)
Iota(n, first) == [k \in 1 .. n |-> first + k - 1]

RolloutPositions == Iota(NumPos, 1)

\* the index i at which the for loop of one ply stops (NumPos when no entry is legal)
RolloutScan(ps, b) ==
    LET hits == {k \in 1 .. Len(ps) : applyLegal(Move(ps[k], b.who_take_turns), b)}
    IN IF hits = {} THEN Len(ps)
       ELSE (CHOOSE k \in hits : \A h \in hits : k <= h) - 1

\* a plausible slip: the legal move is recorded but after = temp is missing
RolloutStep_dropped(b, move) == b

\* after = temp: the board of the rollout after a legal move
RolloutStep(b, move) == apply(move, b)

\* MCTSplayer::simulation: the winner is the colour of the last rollout move,
\* or of the node's own move when the rollout is empty
Winner(play, node) ==
    IF Len(play) > 0 THEN play[Len(play)].color ELSE node.move.color

simulationResult(play, node, me) == IF Winner(play, node) = me THEN 1 ELSE 0

(***************************************************************************)
(* State: the agent (who, simulation_time, engine, space), the caller's   *)
(* board state, the heap of nodes with the set of live (not deleted)      *)
(* ones, and the locals of take_action, simulation and random_rollout.    *)
(* run and first_result belong to the two-run comparison of SpecRuns.     *)
(***************************************************************************)
VARIABLES who, simulation_time, seed, engine, space, state, nodes, live, root,
          i, pc, current_board, current_node, after, pos, rollout_play, win,
          result, run, first_result

vars == <<who, simulation_time, seed, engine, space, state, nodes, live, root,
          i, pc, current_board, current_node, after, pos, rollout_play, win,
          result, run, first_result>>

agentVars == <<who, simulation_time, seed>>
runVars == <<run, first_result>>
rolloutVars == <<after, pos, rollout_play>>

\* the space of a constructed MCTSplayer: space[i] = action::place(i, who)
InitialSpace(me) == [k \in 1 .. NumPos |-> Move(k - 1, me)]

\* the locals of a call that has not started
Idle ==
    /\ nodes = <<>>
    /\ live = {}
    /\ root = NullNode
    /\ i = 0
    /\ pc = "idle"
    /\ current_board = DefaultBoard
    /\ current_node = NullNode
    /\ after = DefaultBoard
    /\ pos = RolloutPositions
    /\ rollout_play = <<>>
    /\ win = 0
    /\ result = NoMove

Init ==
    /\ who \in {black, white}
    /\ state \in {b \in ReachableBoards : b.who_take_turns = who}
    /\ simulation_time \in 0 .. MaxT
    /\ seed \in 1 .. MaxSeed
    /\ engine = ConstructedEngine(seed, DefaultEngine)
    /\ space = InitialSpace(who)
    /\ Idle
    /\ run = 1
    /\ first_result = NoMove

\* the root of take_action: a new Node whose placer is flipped
RootNode == [NewNode EXCEPT !.placer = IF NewNode.placer = black THEN white ELSE black]

\* take_action, entry: allocate the root
TakeAction ==
    /\ pc = "idle"
    /\ nodes' = Append(nodes, RootNode)
    /\ root' = Len(nodes) + 1
    /\ live' = live \cup {Len(nodes) + 1}
    /\ i' = 0
    /\ pc' = "loop"
    /\ UNCHANGED <<agentVars, runVars, rolloutVars, engine, space, state,
                   current_board, current_node, win, result>>

\* a plausible slip: the board of the previous iteration is kept
IterationBoard_reused(input, previous) == previous

\* board current_board(state): the board an iteration starts from
IterationBoard(input, previous) == input

\* a plausible slip: the loop runs while i <= simulation_time
LoopContinues_inclusive(k, budget) == k <= budget

\* the loop condition i < simulation_time
LoopContinues(k, budget) == k < budget

\* take_action, loop head: one more iteration starts at the root
StartIteration ==
    /\ pc = "loop"
    /\ LoopContinues(i, simulation_time)
    /\ current_board' = IterationBoard(state, current_board)
    /\ current_node' = root
    /\ pc' = "selection"
    /\ UNCHANGED <<agentVars, runVars, rolloutVars, engine, space, state, nodes,
                   live, root, i, win, result>>

\* selection, loop body: descend to the child of largest UCT value
SelectChild ==
    /\ pc = "selection"
    /\ ~isleaf(nodes[current_node])
    /\ current_node' = selectchild(nodes, current_node)
    /\ current_board' = selectchildBoard(nodes, current_board, current_node)
    /\ UNCHANGED <<agentVars, runVars, rolloutVars, engine, space, state, nodes,
                   live, root, i, pc, win, result>>

\* selection returns the childless node
SelectionReturn ==
    /\ pc = "selection"
    /\ isleaf(nodes[current_node])
    /\ pc' = "expand"
    /\ UNCHANGED <<agentVars, runVars, rolloutVars, engine, space, state, nodes,
                   live, root, i, current_board, current_node, win, result>>

\* a plausible slip: the test of games is lost and every selected node is expanded
ExpandsNode_always(node) == TRUE

\* current_node->games == 0: the selected node is expanded on its first visit
ExpandsNode(node) == node.games = 0

\* take_action: expand a node without games and re-apply its move
Expand ==
    /\ pc = "expand"
    /\ IF ExpandsNode(nodes[current_node])
       THEN LET sh == Shuffle(space, engine)
            IN /\ space' = sh.seq
               /\ engine' = sh.engine
               /\ nodes' = expansion(nodes, sh.seq, current_board, current_node)
               /\ live' = live \cup (Len(nodes) + 1 .. Len(nodes) + Len(space))
               /\ current_board' = apply(nodes[current_node].move, current_board)
       ELSE UNCHANGED <<space, engine, nodes, live, current_board>>
    /\ pc' = "simulate"
    /\ UNCHANGED <<agentVars, runVars, rolloutVars, state, root, i, current_node,
                   win, result>>

\* rollout and the head of random_rollout
Rollout ==
    /\ pc = "simulate"
    /\ IF legal_count(nodes[current_node]) > 0
       THEN LET sh == Shuffle(RolloutPositions, engine)
            IN /\ after' = current_board
               /\ pos' = sh.seq
               /\ engine' = sh.engine
               /\ pc' = "rollout"
       ELSE /\ pc' = "winner"
            /\ UNCHANGED <<after, pos, engine>>
    /\ rollout_play' = <<>>
    /\ UNCHANGED <<agentVars, runVars, space, state, nodes, live, root, i,
                   current_board, current_node, win, result>>

\* random_rollout: one pass of the while loop
RolloutPly ==
    /\ pc = "rollout"
    /\ LET k == RolloutScan(pos, after)
       IN IF k = NumPos
          THEN /\ pc' = "winner"
               /\ UNCHANGED <<after, rollout_play>>
          ELSE LET move == Move(pos[k + 1], after.who_take_turns)
               IN /\ after' = RolloutStep(after, move)
                  /\ rollout_play' = Append(rollout_play, move)
                  /\ pc' = "rollout"
    /\ UNCHANGED <<agentVars, runVars, engine, space, state, nodes, live, root, i,
                   current_board, current_node, pos, win, result>>

\* simulation: the outcome of the rollout for the agent
Simulation ==
    /\ pc = "winner"
    /\ win' = simulationResult(rollout_play, nodes[current_node], who)
    /\ pc' = "backprop"
    /\ UNCHANGED <<agentVars, runVars, rolloutVars, engine, space, state, nodes,
                   live, root, i, current_board, current_node, result>>

\* backpropagation and the end of the iteration
Backpropagation ==
    /\ pc = "backprop"
    /\ nodes' = backpropagation(nodes, current_node, win)
    /\ i' = i + 1
    /\ pc' = "loop"
    /\ UNCHANGED <<agentVars, runVars, rolloutVars, engine, space, state, live,
                   root, current_board, current_node, win, result>>

\* the nodes that delete root deallocates (Node has no destructor)
Deleted(ns, r) == {r}

\* the action take_action returns for the chosen child
ReturnedAction(ns, best) == IF best # NullNode THEN ns[best].move ELSE NoMove

\* take_action, after the loop: choose the move, delete the root, return
Return ==
    /\ pc = "loop"
    /\ ~LoopContinues(i, simulation_time)
    /\ result' = ReturnedAction(nodes, selectbestchild(nodes, root))
    /\ live' = live \ Deleted(nodes, root)
    /\ pc' = "done"
    /\ UNCHANGED <<agentVars, runVars, rolloutVars, engine, space, state, nodes,
                   root, i, current_board, current_node, win>>

Next ==
    \/ TakeAction
    \/ StartIteration
    \/ SelectChild
    \/ SelectionReturn
    \/ Expand
    \/ Rollout
    \/ RolloutPly
    \/ Simulation
    \/ Backpropagation
    \/ Return

Spec == Init /\ [][Next]_vars

\* a second run: a new agent is constructed with the same arguments and is
\* given the same board
SecondRun ==
    /\ pc = "done"
    /\ run = 1
    /\ run' = 2
    /\ first_result' = result
    /\ engine' = ConstructedEngine(seed, engine)
    /\ space' = InitialSpace(who)
    /\ nodes' = <<>>
    /\ live' = {}
    /\ root' = NullNode
    /\ i' = 0
    /\ pc' = "idle"
    /\ current_board' = DefaultBoard
    /\ current_node' = NullNode
    /\ after' = DefaultBoard
    /\ pos' = RolloutPositions
    /\ rollout_play' = <<>>
    /\ win' = 0
    /\ result' = NoMove
    /\ UNCHANGED <<agentVars, state>>

NextRuns == Next \/ SecondRun

SpecRuns == Init /\ [][NextRuns]_vars

(***************************************************************************)
(* Properties.                                                             *)
(***************************************************************************)
Returned == pc = "done"

RootChildren == IF root = NullNode THEN <<>> ELSE nodes[root].children

\* C1: with a budget of at least one iteration and at least one legal
\* placement for the agent, take_action returns a placement (not the "no
\* move" action) of the agent's colour at a position legal on the board.
C1_ReturnsLegalMove ==
    (Returned /\ simulation_time >= 1 /\ LegalPositions(state) # {})
        => /\ result # NoMove
           /\ result.color = who
           /\ Legal(state, result.position, who)

\* C1 witness: a move was returned on a board that also has an empty
\* position where the agent may not place.
C1_Witness ==
    /\ Returned /\ simulation_time >= 1
    /\ result # NoMove
    /\ \E p \in Positions : state.stone[p] = empty /\ ~Legal(state, p, who)

\* C2: on a board without a legal placement for the agent the root stays
\* childless through all iterations and take_action returns "no move".
C2_NoLegalMoveNoMove ==
    LegalPositions(state) = {}
        => /\ RootChildren = <<>>
           /\ Returned => result = NoMove

\* C2 witness: a call with several iterations returned on such a board.
C2_Witness ==
    /\ Returned /\ LegalPositions(state) = {}
    /\ simulation_time >= 2 /\ i = simulation_time
    /\ result = NoMove

\* C4: with a budget of zero no iteration runs, the root has no children
\* and no other node exists, and take_action returns "no move".
C4_ZeroBudgetNoMove ==
    simulation_time = 0
        => /\ pc \in {"idle", "loop", "done"}
           /\ i = 0
           /\ RootChildren = <<>>
           /\ Len(nodes) <= 1
           /\ Returned => result = NoMove

\* C4 witness: a zero-budget call returned on a board with legal placements.
C4_Witness ==
    /\ Returned /\ simulation_time = 0
    /\ LegalPositions(state) # {}
    /\ result = NoMove

Games(n) == nodes[n].games
Wins(n) == nodes[n].win

\* C3 as stated: the returned move is the move of a root child whose
\* number of games is maximal among the root's children.
C3_MostVisitedChild ==
    (Returned /\ RootChildren # <<>>)
        => \E k \in 1 .. Len(RootChildren) :
              /\ result = nodes[RootChildren[k]].move
              /\ \A j \in 1 .. Len(RootChildren) :
                    Games(RootChildren[j]) <= Games(RootChildren[k])

\* C3 amended: the returned move is the move of the root child whose win
\* rate win/games is maximal among the root children that have a game, the
\* first such child on ties; it is the first child when no child has a game.
C3_HighestWinRateChild ==
    (Returned /\ RootChildren # <<>>)
        => \E k \in 1 .. Len(RootChildren) :
              LET c == RootChildren[k]
              IN /\ result = nodes[c].move
                 /\ IF \A j \in 1 .. Len(RootChildren) : Games(RootChildren[j]) = 0
                    THEN k = 1
                    ELSE /\ Games(c) > 0
                         /\ \A j \in 1 .. Len(RootChildren) :
                               LET d == RootChildren[j]
                               IN Games(d) > 0
                                    => /\ Wins(d) * Games(c) <= Wins(c) * Games(d)
                                       /\ j < k => Wins(d) * Games(c) < Wins(c) * Games(d)

\* C3 witness: the returned move belongs to a visited child that has fewer
\* games than another child.
C3_Witness ==
    /\ Returned
    /\ \E j, k \in 1 .. Len(RootChildren) :
          /\ result = nodes[RootChildren[k]].move
          /\ Games(RootChildren[k]) > 0
          /\ Games(RootChildren[j]) > Games(RootChildren[k])

\* the number of nodes on the path from the root to n
Depth(n) == Cardinality(Chain(nodes, n))

\* the largest number of steps of one iteration
IterationSteps == 2 * NumPos + 8

\* the number of steps a call can still take, at most: the iterations not
\* yet started, and within an iteration the levels selection can still
\* descend and the plies the rollout can still place
Variant ==
    LET later == (simulation_time - i) * IterationSteps
        rest == (simulation_time - i - 1) * IterationSteps + 1
    IN CASE pc = "idle" -> later + 2
         [] pc = "loop" -> later + 1
         [] pc = "selection" -> rest + 2 * NumPos + 8 - Depth(current_node)
         [] pc = "expand" -> rest + NumPos + 5
         [] pc = "simulate" -> rest + NumPos + 4
         [] pc = "rollout" -> rest + NumPos + 3 - Len(rollout_play)
         [] pc = "winner" -> rest + 2
         [] pc = "backprop" -> rest + 1
         [] OTHER -> 0

\* C5: a call terminates: every step lowers a natural number (Variant), so
\* a call takes finitely many steps; it returns after exactly
\* simulation_time iterations, no selection descends deeper than the
\* board has positions and no rollout has more plies than the board has
\* positions.
C5_Terminates ==
    /\ [][Variant' < Variant]_vars
    /\ [](Variant >= 0)
    /\ [](Variant = 0 <=> Returned)
    /\ [](Returned => i = simulation_time)
    /\ [](pc = "selection" => Depth(current_node) <= NumPos + 1)
    /\ [](Len(rollout_play) <= NumPos)

\* C5 witness: a call of at least three iterations returned after a
\* selection that descended two levels and rollouts that placed stones.
C5_Witness ==
    /\ Returned /\ simulation_time >= 3 /\ i = simulation_time
    /\ \E n \in 1 .. Len(nodes) : Depth(n) >= 3 /\ Games(n) > 0
    /\ after # state

\* C6: no step changes the caller's board, and every iteration starts
\* from a board equal to it.
C6_CallerBoardUnchanged ==
    /\ [][state' = state]_vars
    /\ []((pc = "selection" /\ current_node = root) => current_board = state)

\* C6 witness: a later iteration starts on the caller's board after an
\* earlier iteration has placed stones on its copies.
C6_Witness ==
    /\ pc = "selection" /\ current_node = root /\ i >= 1
    /\ current_board = state
    /\ after # state
    /\ RootChildren # <<>>

\* C7 as stated: when take_action has returned, no Node allocated during
\* the call is still live.
C7_TreeDiscarded == Returned => live = {}

RolloutEnd == IF legal_count(nodes[current_node]) > 0 THEN after ELSE current_board

\* every move of play, made in turn from board b, is legal for the side to move
RECURSIVE PlayLegal(_, _, _)
PlayLegal(b, play, k) ==
    IF k > Len(play) THEN TRUE
    ELSE /\ play[k].color = b.who_take_turns
         /\ Legal(b, play[k].position, play[k].color)
         /\ PlayLegal(place(b, play[k].position, play[k].color), play, k + 1)

\* C9 as stated: every rollout placement is legal for the side to move, and
\* the rollout stops only when the side to move has no legal placement at
\* any position of the board.
C9_RolloutStopsWhenTerminal ==
    /\ pc \in {"rollout", "winner"} => PlayLegal(current_board, rollout_play, 1)
    /\ pc = "winner" => LegalPositions(RolloutEnd) = {}

\* C10 as stated: simulation returns 1 exactly when the side that is not to
\* move at the end of the rollout is the agent's colour, and 0 otherwise.
C10_SimulationOutcome ==
    pc = "backprop"
        => /\ win \in {0, 1}
           /\ win = 1 <=> Opp(RolloutEnd.who_take_turns) = who

\* the nodes of the tree: the root and every node linked to a parent
TreeNodes == {n \in 1 .. Len(nodes) : n = root \/ nodes[n].parent # NullNode}

\* an iteration has just been completed (or the call has returned after one)
IterationCompleted == pc \in {"loop", "done"} /\ i >= 1

\* C11: for every node, 0 <= win <= games after every completed iteration
\* (and in every other state of the search).
C11_WinAtMostGames ==
    \A n \in 1 .. Len(nodes) : 0 <= Wins(n) /\ Wins(n) <= Games(n)

\* C11 witness: after several iterations a node has won some but not all of
\* its games and another node has won all of its games.
C11_Witness ==
    /\ IterationCompleted /\ i >= 3
    /\ \E n \in TreeNodes : 0 < Wins(n) /\ Wins(n) < Games(n)
    /\ \E n \in TreeNodes : Games(n) >= 1 /\ Wins(n) = Games(n)

\* the sum of games over the nodes of the sequence ch
RECURSIVE SumGames(_)
SumGames(ch) == IF ch = <<>> THEN 0 ELSE Games(Head(ch)) + SumGames(Tail(ch))

\* the positions of the moves of the children of n
ChildPositions(n) ==
    {nodes[nodes[n].children[k]].move.position : k \in 1 .. Len(nodes[n].children)}

\* C12: once an iteration is completed the root has exactly one child per
\* position that is legal for the agent on the caller's board (no
\* duplicates), every child has games >= 0 and the games of the root's
\* children sum to at most the number of completed iterations.
C12_RootChildrenLegalMoves ==
    i >= 1
        => /\ ChildPositions(root) = LegalPositions(state)
           /\ Len(RootChildren) = Cardinality(LegalPositions(state))
           /\ \A k \in 1 .. Len(RootChildren) : Games(RootChildren[k]) >= 0
           /\ SumGames(RootChildren) <= i

\* C12 witness: after several iterations on a board that has a legal
\* placement and an empty position that is not legal, the root's children
\* have games.
C12_Witness ==
    /\ IterationCompleted /\ i >= 3
    /\ Len(RootChildren) >= 1
    /\ \E p \in Positions : state.stone[p] = empty /\ p \notin ChildPositions(root)
    /\ SumGames(RootChildren) >= 2

\* the children of the parent of n, n included
Siblings(n) ==
    {nodes[nodes[n].parent].children[k] : k \in 1 .. Len(nodes[nodes[n].parent].children)}

\* C13 as stated: selection never descends into a child that has a game
\* while a sibling has none, and no node has a child with two games while
\* another of its children has none.
C13_FirstPlayGuarantee ==
    /\ (pc = "selection" /\ current_node # root /\ Games(current_node) >= 1)
            => \A d \in Siblings(current_node) : Games(d) >= 1
    /\ \A n \in TreeNodes \ {root} :
            Games(n) >= 2 => \A d \in Siblings(n) : Games(d) >= 1

\* C14: the backpropagation step with outcome win (0 or 1) adds 1 to games
\* and win to win at every node on the parent chain from the simulated
\* node up to the root, the same amount at every level, and leaves games
\* and win of every other node, and every parent and children link, as
\* they were.
C14_BackpropagationChain ==
    [][pc = "backprop"
        => /\ win \in {0, 1}
           /\ root \in Chain(nodes, current_node)
           /\ Len(nodes') = Len(nodes)
           /\ \A n \in 1 .. Len(nodes) :
                 /\ nodes'[n].parent = nodes[n].parent
                 /\ nodes'[n].children = nodes[n].children
                 /\ IF n \in Chain(nodes, current_node)
                    THEN /\ nodes'[n].games = nodes[n].games + 1
                         /\ nodes'[n].win = nodes[n].win + win
                    ELSE /\ nodes'[n].games = nodes[n].games
                         /\ nodes'[n].win = nodes[n].win]_vars

\* C14 witness: a won simulation at a node two levels below the root has
\* been backpropagated: the node, its parent and the root have a win, and
\* a node off the chain has a game and no win.
C14_Witness ==
    /\ pc = "loop" /\ i >= 3 /\ win = 1
    /\ Depth(current_node) >= 3
    /\ \A n \in Chain(nodes, current_node) : Wins(n) >= 1
    /\ \E n \in TreeNodes \ Chain(nodes, current_node) : Games(n) >= 1 /\ Wins(n) = 0

\* the board position of node n: the caller's board advanced by the
\* placements on the path from the root to n, each made by the side to move
RECURSIVE PathBoard(_)
PathBoard(n) ==
    IF nodes[n].parent = NullNode THEN state
    ELSE LET b == PathBoard(nodes[n].parent)
         IN place(b, nodes[n].move.position, b.who_take_turns)

\* n has been expanded: it has a game, or it is the node of the running
\* iteration after the expansion step
Expanded(n) ==
    \/ Games(n) >= 1
    \/ n = current_node /\ pc \in {"simulate", "rollout", "winner", "backprop"}

\* C15: right after every expansion step and after every completed
\* iteration, an expanded node has exactly one child per position legal for
\* the side to move in its board position, each with the node as parent;
\* a node not yet expanded has no child; every expansion allocates one Node
\* per board position, so the number of Nodes shows that each node was
\* expanded once; a step changes the children of a node only when it
\* expands the selected node, which then has no game and no child.
C15_ExpandedOnce ==
    /\ []((pc = "simulate" \/ IterationCompleted)
            => \A n \in TreeNodes :
                 Expanded(n)
                    => /\ ChildPositions(n) = LegalPositions(PathBoard(n))
                       /\ Len(nodes[n].children) = Cardinality(LegalPositions(PathBoard(n)))
                       /\ \A k \in 1 .. Len(nodes[n].children) :
                              nodes[nodes[n].children[k]].parent = n)
    /\ [](\A n \in TreeNodes : ~Expanded(n) => nodes[n].children = <<>>)
    /\ [](Len(nodes) = Cardinality({root} \ {NullNode})
                        + NumPos * Cardinality({n \in TreeNodes : Expanded(n)}))
    /\ [][\A n \in 1 .. Len(nodes) :
             nodes'[n].children # nodes[n].children
                => /\ pc = "expand" /\ n = current_node
                   /\ Games(n) = 0 /\ nodes[n].children = <<>>]_vars

\* C15 witness: the root has several children, and one of them, whose
\* position has no legal placement, has been visited twice and is childless.
C15_Witness ==
    /\ IterationCompleted
    /\ Len(RootChildren) >= 2
    /\ \E n \in TreeNodes \ {root} :
          Games(n) >= 2 /\ nodes[n].children = <<>> /\ LegalPositions(PathBoard(n)) = {}

\* every placement on the path from the root to n is legal for the side to
\* move on the board it is made on
RECURSIVE PathLegal(_)
PathLegal(n) ==
    \/ nodes[n].parent = NullNode
    \/ /\ PathLegal(nodes[n].parent)
       /\ LET b == PathBoard(nodes[n].parent)
          IN Legal(b, nodes[n].move.position, b.who_take_turns)

\* the number of stones on board b
Stones(b) == Cardinality({p \in Positions : b.stone[p] # empty})

\* C16: while selection descends, when it has returned and when the
\* simulation starts, the iteration's board is the caller's board advanced
\* by the placements on the path from the root to the current node, each
\* legal and made once, and the side to move alternates along the path.
C16_BoardFollowsPath ==
    pc \in {"selection", "expand", "simulate"}
        => /\ current_board = PathBoard(current_node)
           /\ PathLegal(current_node)
           /\ Stones(current_board) = Stones(state) + Depth(current_node) - 1
           /\ current_board.who_take_turns =
                 (IF Depth(current_node) % 2 = 1 THEN who ELSE Opp(who))

\* C16 witness: a simulation starts at a node two levels below the root
\* that has just been expanded.
C16_Witness ==
    /\ pc = "simulate"
    /\ Depth(current_node) >= 3
    /\ Games(current_node) = 0
    /\ nodes[current_node].children # <<>>
    /\ current_board # state

\* C17 as stated: the root's placer is the opponent of the agent's colour,
\* every child's placer is the opposite of its parent's, and for every
\* node below the root the placer and the colour of its move are the side
\* to move at the parent's position.
C17_ColourBookkeeping ==
    /\ root # NullNode => nodes[root].placer = Opp(who)
    /\ \A n \in TreeNodes \ {root} :
          /\ nodes[n].placer = Opp(nodes[nodes[n].parent].placer)
          /\ nodes[n].placer = PathBoard(nodes[n].parent).who_take_turns
          /\ nodes[n].move.color = PathBoard(nodes[n].parent).who_take_turns

\* C18 as stated: the legal-move count that rollout consults for the
\* simulated node is the number of positions at which the side to move can
\* legally place in the node's board position, so the random playout is
\* skipped exactly when that position has no legal placement.
C18_LegalCountOfPosition ==
    pc = "simulate"
        => /\ legal_count(nodes[current_node])
                 = Cardinality(LegalPositions(PathBoard(current_node)))
           /\ legal_count(nodes[current_node]) = 0
                 <=> LegalPositions(PathBoard(current_node)) = {}

\* C19: after every completed iteration the root's games is the number of
\* completed iterations, every node with a child has one game more than
\* its children together (so the root's children have i - 1), and a
\* childless node has two or more games only if its position has no legal
\* placement.
C19_VisitAccounting ==
    IterationCompleted
        => /\ Games(root) = i
           /\ \A n \in TreeNodes :
                 IF nodes[n].children # <<>>
                 THEN Games(n) = 1 + SumGames(nodes[n].children)
                 ELSE Games(n) >= 2 => LegalPositions(PathBoard(n)) = {}
           /\ RootChildren # <<>> => SumGames(RootChildren) = i - 1

\* C19 witness: after at least three iterations the root has several
\* children and a node below the root has a child with a game.
C19_Witness ==
    /\ IterationCompleted /\ i >= 3
    /\ Len(RootChildren) >= 2
    /\ \E n \in TreeNodes \ {root} : SumGames(nodes[n].children) >= 1

\* C20 as stated: whenever selection sorts the children of a node (two or
\* more, so that the comparison evaluates every child's score), the node
\* has at least one win if a child has a game, and the score of every
\* child is a defined number.
C20_ScoreDefined ==
    (pc = "selection" /\ Len(nodes[current_node].children) >= 2)
        => \A k \in 1 .. Len(nodes[current_node].children) :
              LET d == nodes[current_node].children[k]
              IN /\ Games(d) >= 1 => Wins(current_node) >= 1
                 /\ UCTvalue(nodes, d) # NaN

====
